---- MODULE Spec2Model ----
(***************************************************************************)
(* Cycle Store and database-backed pipeline of the telecom billing anomaly *)
(* detector: src/database_setup.py (schema), src/database_integration.py   *)
(* (store operations), src/anomaly_detection_with_db.py (feature engine,   *)
(* classifier, process_with_database) and src/run_clean_demo.py (the demo  *)
(* loop that stores generated cycles).                                     *)
(*                                                                         *)
(* Spec drives the store call by call and PipelineSpec runs the pipelines,  *)
(* both through one connection; `pending` counts the billing_data rows the *)
(* connection has inserted but not yet committed (python sqlite3 opens a   *)
(* transaction at the first INSERT and keeps it until conn.commit() or     *)
(* conn.close()).  ReportSpec is the report of the file-only pipeline      *)
(* (src/anomaly_detection.py), EngineSpec the feature engine and the       *)
(* classifier on every kind of row, and WritersSpec two processes calling  *)
(* the store at the same time.                                             *)
(***************************************************************************)
EXTENDS Integers, Sequences, FiniteSets, TLC

VARIABLES cycles, codes, records, log, pending, run, last, calls, out, procs, frame

vars == <<cycles, codes, records, log, pending, run, last, calls, out, procs, frame>>

(* ---------------------------- bounds ----------------------------------- *)
MaxCycles == 2
MaxBatch == 2
MaxRecords == 2 * MaxBatch
MaxLog == 2
\* store calls made directly in one behaviour
MaxCalls == 4

(* ------------------------- value encodings ----------------------------- *)
\* a missing amount (pd.to_numeric(..., errors='coerce') yields NaN); amounts are
\* non-negative and counted in units of 50 (2 is the spec scenario's 100)
NaN == -1
\* SQL NULL in an INTEGER column (total_records, anomaly_count)
NULL == -1

Codes == {"C001", "C002"}
BillTypes == {"SEC", "ACR"}
Descs == {"", "d1", "d2"}
CycleKeys == {1}

AllMissing == <<NaN, NaN, NaN, NaN, NaN>>
Steady == <<2, 2, 2, 2, 2>>
OnlyLast == <<NaN, NaN, NaN, NaN, 2>>

\* the raw rows a pipeline batch is drawn from: the three rows of the spec's
\* scenario (steady, drop to zero, new code) plus a code reused under a second
\* bill type and a row whose current amount is missing
RowSteady == [code |-> "C001", bill_type |-> "SEC", desc |-> "d1", hist |-> Steady, active |-> 2]
RowDrop == [code |-> "C001", bill_type |-> "SEC", desc |-> "d2", hist |-> Steady, active |-> 0]
RowNew == [code |-> "C002", bill_type |-> "SEC", desc |-> "", hist |-> AllMissing, active |-> 1]
RowOtherType == [code |-> "C001", bill_type |-> "ACR", desc |-> "d1", hist |-> Steady, active |-> 4]
RowNoActive == [code |-> "C002", bill_type |-> "SEC", desc |-> "d1", hist |-> OnlyLast, active |-> NaN]

RawRows == {RowSteady, RowDrop, RowNew, RowOtherType, RowNoActive}

\* the rows of the batches handed to store_batch directly
DirectRows == {RowSteady, RowOtherType, RowNoActive}

BatchesOver(rows) == UNION { [1..n -> rows] : n \in 1..MaxBatch }

(* ------------------ feature engine and classifier ---------------------- *)
\* default thresholds of flag_anomalies, as fractions: z_thresh = 5/2, pct_thresh = 1/2
ZThreshNum == 5
ZThreshDen == 2
PctThreshNum == 1
PctThreshDen == 2
\* common denominator of the row means over 1..5 present slots
Scale == 3 * 4 * 5

Abs(x) == IF x < 0 THEN 0 - x ELSE x

isna(x) == x = NaN

RECURSIVE SumPresent(_, _)
SumPresent(h, i) ==
  IF i = 0 THEN 0 ELSE (IF isna(h[i]) THEN 0 ELSE h[i]) + SumPresent(h, i - 1)

CountPresent(h) == Cardinality({i \in 1..5 : ~isna(h[i])})

\* DataFrame.mean(axis=1) skips missing slots: the mean is sum/count of the
\* present slots and is missing only when no slot is present.  Scaled by Scale.
calculate_rolling_average(h) ==
  IF CountPresent(h) = 0 THEN NaN
  ELSE (Scale \div CountPresent(h)) * SumPresent(h, 5)

\* Active_vs_Avg = Active Month - Rolling_Avg, from the two columns; scaled by
\* Scale; defined is FALSE when an operand is missing
ActiveVsAvg(avg, active) ==
  IF isna(avg) \/ isna(active) THEN [defined |-> FALSE, val |-> 0]
  ELSE [defined |-> TRUE, val |-> Scale * active - avg]

\* Active_vs_Avg of a row whose Rolling_Avg column was computed from its history
calculate_deltas(h, active) == ActiveVsAvg(calculate_rolling_average(h), active)

\* |Pct_Change_Active_vs_Avg| > pct_thresh.  Float division: x/0 is +-inf for
\* x # 0 (which exceeds every threshold) and NaN for 0/0 (which compares False).
\* A threshold is the fraction num/den.
PctRuleWith(h, active, pct_thresh) ==
  LET d == calculate_deltas(h, active)
      avg == calculate_rolling_average(h)
  IN  /\ d.defined
      /\ IF avg = 0 THEN d.val # 0
         ELSE pct_thresh.den * Abs(d.val) > pct_thresh.num * Abs(avg)

\* the default thresholds of flag_anomalies
DefaultZ == [num |-> ZThreshNum, den |-> ZThreshDen]

DefaultPct == [num |-> PctThreshNum, den |-> PctThreshDen]

PctRule(h, active) == PctRuleWith(h, active, DefaultPct)

Drop_to_0(h, active) ==
  /\ (active = 0 \/ isna(active))
  /\ \E i \in 1..5 : ~isna(h[i])

\* variant: any missing historical slot makes a code new
New_Code_any_missing(h, active) ==
  /\ \E i \in 1..5 : isna(h[i])
  /\ ~isna(active)

New_Code(h, active) ==
  /\ \A i \in 1..5 : isna(h[i])
  /\ ~isna(active)

flag_special_cases(row) ==
  [drop_to_zero |-> Drop_to_0(row.hist, row.active),
   new_code |-> New_Code(row.hist, row.active)]

\* rows of the batch whose Active_vs_Avg is defined (Series.mean/std skip the rest)
DefinedRows(b) == {j \in 1..Len(b) : calculate_deltas(b[j].hist, b[j].active).defined}

RECURSIVE SumOver(_, _)
SumOver(f, S) ==
  IF S = {} THEN 0
  ELSE LET j == CHOOSE k \in S : TRUE IN f[j] + SumOver(f, S \ {j})

\* variant: the population (ddof = 0) standard deviation, z[i]^2 = n * D[i]^2 / sum(D[j]^2)
ZRulePopulation(b, i, z_thresh) ==
  LET S == DefinedRows(b)
      n == Cardinality(S)
      x == [j \in 1..Len(b) |-> calculate_deltas(b[j].hist, b[j].active).val]
      total == SumOver(x, S)
      D == [j \in 1..Len(b) |-> n * x[j] - total]
      SS == SumOver([j \in 1..Len(b) |-> D[j] * D[j]], S)
  IN  /\ i \in S
      /\ n >= 2
      /\ SS > 0
      /\ z_thresh.den * z_thresh.den * n * D[i] * D[i]
           > z_thresh.num * z_thresh.num * SS

\* |Active_vs_Avg_z| > z_thresh with the sample (ddof = 1) standard deviation:
\* with D[j] = n*x[j] - sum(x), z[i]^2 = (n-1) * D[i]^2 / sum(D[j]^2)
ZRuleWith(b, i, z_thresh) ==
  LET S == DefinedRows(b)
      n == Cardinality(S)
      x == [j \in 1..Len(b) |-> calculate_deltas(b[j].hist, b[j].active).val]
      total == SumOver(x, S)
      D == [j \in 1..Len(b) |-> n * x[j] - total]
      SS == SumOver([j \in 1..Len(b) |-> D[j] * D[j]], S)
  IN  /\ i \in S
      /\ n >= 2
      /\ SS > 0
      /\ z_thresh.den * z_thresh.den * (n - 1) * D[i] * D[i]
           > z_thresh.num * z_thresh.num * SS

ZRule(b, i) == ZRuleWith(b, i, DefaultZ)

\* variant: the structural flags count only for a row whose deviation is defined
flag_anomalies_numeric_only(b, i, z_thresh, pct_thresh) ==
  \/ ZRuleWith(b, i, z_thresh)
  \/ PctRuleWith(b[i].hist, b[i].active, pct_thresh)
  \/ /\ calculate_deltas(b[i].hist, b[i].active).defined
     /\ \/ flag_special_cases(b[i]).drop_to_zero
        \/ flag_special_cases(b[i]).new_code

\* flag_anomalies(df, z_thresh, pct_thresh), row i of the frame
flag_anomalies_with(b, i, z_thresh, pct_thresh) ==
  \/ ZRuleWith(b, i, z_thresh)
  \/ PctRuleWith(b[i].hist, b[i].active, pct_thresh)
  \/ flag_special_cases(b[i]).drop_to_zero
  \/ flag_special_cases(b[i]).new_code

\* flag_anomalies(df): the defaults z_thresh = 2.5, pct_thresh = 0.5
flag_anomalies(b, i) == flag_anomalies_with(b, i, DefaultZ, DefaultPct)

\* the frame after calculate_rolling_average, calculate_deltas,
\* flag_special_cases and flag_anomalies: the raw columns plus the flags
Annotate(b) ==
  [i \in 1..Len(b) |->
     [code |-> b[i].code, bill_type |-> b[i].bill_type, desc |-> b[i].desc,
      hist |-> b[i].hist, active |-> b[i].active,
      drop_to_zero |-> flag_special_cases(b[i]).drop_to_zero,
      new_code |-> flag_special_cases(b[i]).new_code,
      is_anomaly |-> flag_anomalies(b, i)]]

Batches == {Annotate(b) : b \in BatchesOver(RawRows)}

DirectBatches == {Annotate(b) : b \in BatchesOver(DirectRows)}

(* ----------------------------- the store ------------------------------- *)
\* the tables as one value, so that an operation that calls another can be
\* composed: cycles = processing_cycles, codes = billing_codes,
\* records = billing_data, log = processing_log; row ids are the positions
\* (AUTOINCREMENT, and no statement of the program deletes a row)
\* today is the date datetime.now() gives the call: the calls made so far are
\* the clock
DB == [cycles |-> cycles, codes |-> codes, records |-> records, log |-> log,
       pending |-> pending, today |-> calls]

\* conn.commit(): the rows inserted so far become durable
Commit(db) == [db EXCEPT !.pending = 0]

\* conn.close() (disconnect, reached from __del__): the open transaction is rolled back
disconnect(db) ==
  [db EXCEPT !.records = SubSeq(db.records, 1, Len(db.records) - db.pending),
             !.pending = 0]

\* variant: a UNIQUE (cycle_number, year, month) constraint on processing_cycles
create_cycle_unique_key(db, key) ==
  IF \E i \in 1..Len(db.cycles) : db.cycles[i].key = key
  THEN [db |-> db, ok |-> FALSE, ret |-> 0]
  ELSE [db |-> Commit([db EXCEPT !.cycles =
                         Append(db.cycles, [key |-> key, total_records |-> NULL,
                                            anomaly_count |-> NULL,
                                            status |-> "completed"])]),
        ok |-> TRUE, ret |-> Len(db.cycles) + 1]

\* INSERT INTO processing_cycles: total_records and anomaly_count stay NULL,
\* status takes the column default; returns cursor.lastrowid
create_processing_cycle(db, key) ==
  [db |-> Commit([db EXCEPT !.cycles =
                    Append(db.cycles, [key |-> key, total_records |-> NULL,
                                       anomaly_count |-> NULL,
                                       status |-> "completed"])]),
   ok |-> TRUE, ret |-> Len(db.cycles) + 1]

\* SELECT ... WHERE billing_code = ? AND bill_type = ?
FindCode(db, code, bill_type) ==
  {i \in 1..Len(db.codes) :
     db.codes[i].billing_code = code /\ db.codes[i].bill_type = bill_type}

\* the UNIQUE constraint of the billing_codes table
UniqueViolated(db, code, bill_type) ==
  \E i \in 1..Len(db.codes) : db.codes[i].billing_code = code

\* variant: an existing entry keeps its first description (no UPDATE)
get_or_create_keep_first(db, code, bill_type, desc) ==
  LET hit == FindCode(db, code, bill_type)
  IN  IF hit # {}
      THEN LET id == CHOOSE i \in hit : TRUE
           IN  [db |-> db, ok |-> TRUE, ret |-> id, found |-> id,
                existing |-> db.codes[id].description]
      ELSE IF UniqueViolated(db, code, bill_type)
           THEN [db |-> db, ok |-> FALSE, ret |-> 0, found |-> 0, existing |-> ""]
           ELSE [db |-> Commit([db EXCEPT !.codes =
                                  Append(db.codes, [billing_code |-> code,
                                                    bill_type |-> bill_type,
                                                    description |-> desc,
                                                    first_seen_date |-> db.today])]),
                 ok |-> TRUE, ret |-> Len(db.codes) + 1, found |-> 0,
                 existing |-> ""]

\* variant: the UPDATE is issued whenever the description differs, an empty one
\* included
get_or_create_overwrite(db, code, bill_type, desc) ==
  LET hit == FindCode(db, code, bill_type)
  IN  IF hit # {}
      THEN LET id == CHOOSE i \in hit : TRUE
               existing_description == db.codes[id].description
           IN  [db |-> IF desc # existing_description
                       THEN Commit([db EXCEPT !.codes[id].description = desc])
                       ELSE db,
                ok |-> TRUE, ret |-> id, found |-> id,
                existing |-> existing_description]
      ELSE IF UniqueViolated(db, code, bill_type)
           THEN [db |-> db, ok |-> FALSE, ret |-> 0, found |-> 0, existing |-> ""]
           ELSE [db |-> Commit([db EXCEPT !.codes =
                                  Append(db.codes, [billing_code |-> code,
                                                    bill_type |-> bill_type,
                                                    description |-> desc,
                                                    first_seen_date |-> db.today])]),
                 ok |-> TRUE, ret |-> Len(db.codes) + 1, found |-> 0,
                 existing |-> ""]

\* found and existing are the row fetched by the lookup (0 and "" when none)
get_or_create_billing_code(db, code, bill_type, desc) ==
  LET hit == FindCode(db, code, bill_type)
  IN  IF hit # {}
      THEN LET id == CHOOSE i \in hit : TRUE
               existing_description == db.codes[id].description
           IN  [db |-> IF desc # "" /\ desc # existing_description
                       THEN Commit([db EXCEPT !.codes[id].description = desc])
                       ELSE db,
                ok |-> TRUE, ret |-> id, found |-> id,
                existing |-> existing_description]
      ELSE IF UniqueViolated(db, code, bill_type)
           THEN [db |-> db, ok |-> FALSE, ret |-> 0, found |-> 0, existing |-> ""]
           ELSE [db |-> Commit([db EXCEPT !.codes =
                                  Append(db.codes, [billing_code |-> code,
                                                    bill_type |-> bill_type,
                                                    description |-> desc,
                                                    first_seen_date |-> db.today])]),
                 ok |-> TRUE, ret |-> Len(db.codes) + 1, found |-> 0,
                 existing |-> ""]

\* one INSERT INTO billing_data; active_month_amount is REAL NOT NULL and a
\* NaN parameter is bound as NULL
NotNullViolated(row) == isna(row.active)

InsertRecord(db, cycle_id, code_id, row) ==
  [db EXCEPT !.records =
     Append(db.records, [cycle_id |-> cycle_id, code_id |-> code_id,
                         billing_code |-> row.code, bill_type |-> row.bill_type,
                         hist |-> row.hist, active |-> row.active,
                         drop_to_zero |-> row.drop_to_zero,
                         new_code |-> row.new_code,
                         is_anomaly |-> row.is_anomaly]),
             !.pending = db.pending + 1]

\* the loop of store_billing_data from row i on; n rows inserted so far.  An
\* exception leaves the loop at once: the rows inserted before it stay in the
\* open transaction (or are already committed by a registry write).
RECURSIVE StoreRows(_, _, _, _, _)
StoreRows(db, cycle_id, rows, i, n) ==
  IF i > Len(rows) THEN [db |-> Commit(db), ok |-> TRUE, ret |-> n]
  ELSE LET g == get_or_create_billing_code(db, rows[i].code, rows[i].bill_type,
                                           rows[i].desc)
       IN  IF ~g.ok THEN [db |-> g.db, ok |-> FALSE, ret |-> 0]
           ELSE IF NotNullViolated(rows[i]) THEN [db |-> g.db, ok |-> FALSE, ret |-> 0]
           ELSE StoreRows(InsertRecord(g.db, cycle_id, g.ret, rows[i]),
                          cycle_id, rows, i + 1, n + 1)

\* variant: a row already stored under the cycle is skipped (INSERT OR IGNORE
\* on a unique (cycle_id, code_id)), which makes the call idempotent
RECURSIVE StoreRowsOnce(_, _, _, _, _)
StoreRowsOnce(db, cycle_id, rows, i, n) ==
  IF i > Len(rows) THEN [db |-> Commit(db), ok |-> TRUE, ret |-> n]
  ELSE LET g == get_or_create_billing_code(db, rows[i].code, rows[i].bill_type,
                                           rows[i].desc)
       IN  IF ~g.ok THEN [db |-> g.db, ok |-> FALSE, ret |-> 0]
           ELSE IF NotNullViolated(rows[i]) THEN [db |-> g.db, ok |-> FALSE, ret |-> 0]
           ELSE IF \E j \in 1..Len(g.db.records) :
                     /\ g.db.records[j].cycle_id = cycle_id
                     /\ g.db.records[j].code_id = g.ret
                THEN StoreRowsOnce(g.db, cycle_id, rows, i + 1, n + 1)
                ELSE StoreRowsOnce(InsertRecord(g.db, cycle_id, g.ret, rows[i]),
                                   cycle_id, rows, i + 1, n + 1)

store_billing_data_once(db, cycle_id, rows) == StoreRowsOnce(db, cycle_id, rows, 1, 0)

store_billing_data(db, cycle_id, rows) == StoreRows(db, cycle_id, rows, 1, 0)

\* the columns store_billing_data reads with row[...] (a missing one raises
\* KeyError); the columns read with row.get(...) are optional
RequiredColumns == {"Billing_CODE", "Bill_TYPE", "Year"}

\* store_billing_data on a frame that lacks the column `missing`: Billing_CODE
\* and Bill_TYPE are read as arguments of the registry call of the first row,
\* Year while the first row's data is built, after its registry call returned
StoreFrame(db, cycle_id, rows, missing) ==
  IF missing = "" \/ rows = <<>> THEN store_billing_data(db, cycle_id, rows)
  ELSE IF missing \in {"Billing_CODE", "Bill_TYPE"}
       THEN [db |-> db, ok |-> FALSE, ret |-> 0]
       ELSE [db |-> get_or_create_billing_code(db, rows[1].code, rows[1].bill_type,
                                               rows[1].desc).db,
             ok |-> FALSE, ret |-> 0]

RecordsOf(recs, cycle_id) == {i \in 1..Len(recs) : recs[i].cycle_id = cycle_id}

AnomaliesOf(recs, cycle_id) ==
  {i \in RecordsOf(recs, cycle_id) : recs[i].is_anomaly}

\* COUNT(*) and SUM(CASE WHEN is_anomaly = 1 ...): SUM over no rows is NULL
get_processing_stats(db, cycle_id) ==
  [total_records |-> Cardinality(RecordsOf(db.records, cycle_id)),
   anomaly_count |-> IF RecordsOf(db.records, cycle_id) = {} THEN NULL
                     ELSE Cardinality(AnomaliesOf(db.records, cycle_id))]

\* variant: the UPDATE lacks its WHERE clause and writes every cycle's counts
update_stats_all_cycles(db, cycle_id) ==
  LET stats == get_processing_stats(db, cycle_id)
  IN  Commit([db EXCEPT !.cycles =
                [i \in 1..Len(db.cycles) |->
                   [db.cycles[i] EXCEPT !.total_records = stats.total_records,
                                        !.anomaly_count = stats.anomaly_count]]])

\* UPDATE processing_cycles ... WHERE cycle_id = ?; then commit
update_processing_cycle_stats(db, cycle_id) ==
  LET stats == get_processing_stats(db, cycle_id)
  IN  Commit(IF cycle_id \in 1..Len(db.cycles)
             THEN [db EXCEPT !.cycles[cycle_id].total_records = stats.total_records,
                             !.cycles[cycle_id].anomaly_count = stats.anomaly_count]
             ELSE db)

\* variant: the log keeps one event per cycle (INSERT OR REPLACE keyed by cycle_id)
log_event_replace(db, cycle_id, level, message) ==
  LET event == [cycle_id |-> cycle_id, level |-> level, message |-> message]
      old == {i \in 1..Len(db.log) : db.log[i].cycle_id = cycle_id}
  IN  Commit([db EXCEPT !.log =
                IF old = {} THEN Append(db.log, event)
                ELSE [i \in 1..Len(db.log) |->
                        IF i \in old THEN event ELSE db.log[i]]])

\* INSERT INTO processing_log; then commit
log_processing_event(db, cycle_id, level, message) ==
  Commit([db EXCEPT !.log =
            Append(db.log, [cycle_id |-> cycle_id, level |-> level,
                            message |-> message])])

\* ORDER BY processing_timestamp DESC: the cycle ids, newest first (the
\* timestamp is datetime.now() of the creating call, so a later cycle_id has a
\* later timestamp)
RECURSIVE Reverse(_)
Reverse(s) == IF s = <<>> THEN <<>> ELSE Append(Reverse(Tail(s)), Head(s))

get_all_cycles(db) == Reverse([i \in 1..Len(db.cycles) |-> i])

\* billing_data JOIN processing_cycles ... WHERE bd.billing_code = ?: the
\* records of the code whose cycle row exists (an inner join)
HistoryRows(db, code) ==
  {i \in 1..Len(db.records) :
     /\ db.records[i].billing_code = code
     /\ db.records[i].cycle_id \in 1..Len(db.cycles)}

\* ORDER BY pc.processing_timestamp DESC: the joined records, those of a newer
\* cycle first; the order among the records of one cycle is not determined by
\* the query, so every such sequence is a possible result
get_billing_code_history(db, code) ==
  LET J == HistoryRows(db, code)
      n == Cardinality(J)
  IN  {s \in [1..n -> J] :
         /\ \A i, j \in 1..n : i # j => s[i] # s[j]
         /\ \A i, j \in 1..n :
              i < j => db.records[s[i]].cycle_id >= db.records[s[j]].cycle_id}

(* --------------------------- state machine ----------------------------- *)
\* the numbers of rows of the four tables
Sizes(db) ==
  [cycles |-> Len(db.cycles), codes |-> Len(db.codes),
   records |-> Len(db.records), log |-> Len(db.log)]

\* missing: the required column the batch lacks ("" when it has them all);
\* error: the exception the run is propagating ("" when none); start: the
\* table sizes when the run began
Idle ==
  [pc |-> "idle", kind |-> "none", cycle_id |-> 0, batch |-> <<>>, missing |-> "",
   error |-> "", start |-> [cycles |-> 0, codes |-> 0, records |-> 0, log |-> 0],
   sources |-> "present"]

\* what a finished process left behind: its exit status (-1 before any process
\* has ended) and the rows of the anomaly report it wrote (NoReport when none)
NoReport == <<"none">>

NoOut == [exit |-> -1, report |-> NoReport]

\* the most recent store call: its arguments, the row its lookup fetched,
\* whether it returned (ok) or raised, and what it returned
NoCall ==
  [op |-> "none", cycle_id |-> 0, code |-> "", bill_type |-> "", desc |-> "",
   rows |-> <<>>, found |-> 0, existing |-> "", ok |-> TRUE, ret |-> 0,
   result |-> <<>>]

SetDB(db) ==
  /\ cycles' = db.cycles
  /\ codes' = db.codes
  /\ records' = db.records
  /\ log' = db.log
  /\ pending' = db.pending

\* the state after setup_database(): the tables exist and are empty
Init ==
  /\ cycles = <<>>
  /\ codes = <<>>
  /\ records = <<>>
  /\ log = <<>>
  /\ pending = 0
  /\ run = Idle
  /\ last = NoCall
  /\ calls = 0
  /\ out = NoOut
  /\ procs = <<>>
  /\ frame = <<>>

LevelSet == {"INFO", "ERROR"}

\* a direct call: no pipeline run is in progress
Direct ==
  /\ run.pc = "idle"
  /\ calls < MaxCalls
  /\ calls' = calls + 1
  /\ UNCHANGED <<run, out, procs, frame>>

(* store operations called directly on a DatabaseIntegration object *)
CreateCycle(key) ==
  /\ Direct
  /\ Len(cycles) < MaxCycles
  /\ LET r == create_processing_cycle(DB, key)
     IN  /\ SetDB(r.db)
         /\ last' = [NoCall EXCEPT !.op = "create_cycle", !.cycle_id = r.ret,
                                   !.ok = r.ok, !.ret = r.ret]

Upsert(code, bill_type, desc) ==
  /\ Direct
  /\ LET g == get_or_create_billing_code(DB, code, bill_type, desc)
     IN  /\ SetDB(g.db)
         /\ last' = [NoCall EXCEPT !.op = "upsert", !.code = code,
                                   !.bill_type = bill_type, !.desc = desc,
                                   !.found = g.found, !.existing = g.existing,
                                   !.ok = g.ok, !.ret = g.ret]

StoreBatch(cycle_id, rows) ==
  /\ Direct
  /\ Len(records) + Len(rows) <= MaxRecords
  /\ LET r == store_billing_data(DB, cycle_id, rows)
     IN  /\ SetDB(r.db)
         /\ last' = [NoCall EXCEPT !.op = "store_batch", !.cycle_id = cycle_id,
                                   !.rows = rows, !.ok = r.ok, !.ret = r.ret]

Finalize(cycle_id) ==
  /\ Direct
  /\ SetDB(update_processing_cycle_stats(DB, cycle_id))
  /\ last' = [NoCall EXCEPT !.op = "finalize", !.cycle_id = cycle_id]

LogEvent(cycle_id, level) ==
  /\ Direct
  /\ Len(log) < MaxLog
  /\ SetDB(log_processing_event(DB, cycle_id, level, "note"))
  /\ last' = [NoCall EXCEPT !.op = "log_event", !.cycle_id = cycle_id, !.desc = level]

QueryCycles ==
  /\ Direct
  /\ last.op # "query_cycles"
  /\ last' = [NoCall EXCEPT !.op = "query_cycles", !.result = get_all_cycles(DB)]
  /\ UNCHANGED <<cycles, codes, records, log, pending>>

QueryHistory(code) ==
  /\ Direct
  /\ last.op # "query_history"
  /\ \E result \in get_billing_code_history(DB, code) :
       last' = [NoCall EXCEPT !.op = "query_history", !.code = code,
                              !.result = result]
  /\ UNCHANGED <<cycles, codes, records, log, pending>>

\* the DatabaseIntegration object is dropped with a transaction still open
\* (a store_batch that raised): __del__ -> disconnect -> rollback
Close ==
  /\ Direct
  /\ pending > 0
  /\ SetDB(disconnect(DB))
  /\ last' = [NoCall EXCEPT !.op = "close"]

(* process_with_database (anomaly_detection_with_db.py), one step per call *)

\* int(parts[..]) raises on an unparseable cycle name: no cycle_id exists yet,
\* so the handler logs nothing to the store and re-raises
PwdParseError ==
  /\ run.pc = "idle"
  /\ pending = 0
  /\ run' = [Idle EXCEPT !.pc = "raised", !.kind = "pwd", !.error = "input",
                         !.start = Sizes(DB)]
  /\ last' = NoCall
  /\ UNCHANGED <<cycles, codes, records, log, pending>>
  /\ UNCHANGED <<calls, out, procs, frame>>

PwdCreate(key, rows, missing) ==
  /\ run.pc = "idle"
  /\ pending = 0
  /\ Len(cycles) < MaxCycles
  /\ Len(records) + Len(rows) <= MaxRecords
  /\ SetDB(create_processing_cycle(DB, key).db)
  /\ run' = [Idle EXCEPT !.pc = "created", !.kind = "pwd",
                         !.cycle_id = Len(cycles) + 1, !.batch = rows,
                         !.missing = missing, !.start = Sizes(DB)]
  /\ last' = [NoCall EXCEPT !.op = "create_cycle", !.cycle_id = Len(cycles) + 1,
                         !.ret = Len(cycles) + 1]
  /\ UNCHANGED <<calls, out, procs, frame>>

\* variant: the batch is stored before the start event is logged
PwdStoreBeforeLogStart ==
  /\ run.pc = "created"
  /\ SetDB(store_billing_data(DB, run.cycle_id, run.batch).db)
  /\ run' = [run EXCEPT !.pc = "started"]
  /\ last' = [NoCall EXCEPT !.op = "store_batch", !.cycle_id = run.cycle_id,
                         !.rows = run.batch]
  /\ UNCHANGED <<calls, out, procs, frame>>

PwdLogStart ==
  /\ run.pc = "created"
  /\ SetDB(log_processing_event(DB, run.cycle_id, "INFO", "Processing started"))
  /\ run' = [run EXCEPT !.pc = "started"]
  /\ last' = [NoCall EXCEPT !.op = "log_event", !.cycle_id = run.cycle_id, !.desc = "INFO"]
  /\ UNCHANGED <<calls, out, procs, frame>>

\* the INSERT of the start event raises (sqlite3.OperationalError: the database
\* is locked by another connection, or cannot be written): nothing catches it
\* before the handler of process_with_database
PwdLogStartFails ==
  /\ run.pc = "created"
  /\ run' = [run EXCEPT !.pc = "failing", !.error = "log"]
  /\ last' = [NoCall EXCEPT !.op = "log_event", !.cycle_id = run.cycle_id,
                         !.desc = "INFO", !.ok = FALSE]
  /\ UNCHANGED <<cycles, codes, records, log, pending>>
  /\ UNCHANGED <<calls, out, procs, frame>>

PwdStore ==
  /\ run.pc = "started"
  /\ LET r == StoreFrame(DB, run.cycle_id, run.batch, run.missing)
     IN  /\ SetDB(r.db)
         /\ run' = [run EXCEPT !.pc = IF r.ok THEN "stored" ELSE "failing",
                                !.error = IF r.ok THEN ""
                                          ELSE IF run.missing # "" THEN "input"
                                          ELSE "store"]
         /\ last' = [NoCall EXCEPT !.op = "store_batch", !.cycle_id = run.cycle_id,
                                   !.rows = run.batch, !.ok = r.ok, !.ret = r.ret]
  /\ UNCHANGED <<calls, out, procs, frame>>

\* DatabaseIntegration defines no store_anomaly_details: the call raises
\* AttributeError and the statements after it are never reached
PwdStoreAnomalyDetails ==
  /\ run.pc = "stored"
  /\ run' = [run EXCEPT !.pc = "failing", !.error = "attribute"]
  /\ last' = [NoCall EXCEPT !.op = "store_anomaly_details",
                         !.cycle_id = run.cycle_id, !.ok = FALSE]
  /\ UNCHANGED <<cycles, codes, records, log, pending>>
  /\ UNCHANGED <<calls, out, procs, frame>>

\* variant: the handler rolls the open transaction back before it logs the
\* ERROR event
PwdExceptRollback ==
  /\ run.pc = "failing"
  /\ SetDB(log_processing_event(disconnect(DB), run.cycle_id, "ERROR", "Processing failed"))
  /\ run' = [run EXCEPT !.pc = "raised"]
  /\ last' = [NoCall EXCEPT !.op = "log_event", !.cycle_id = run.cycle_id, !.desc = "ERROR"]
  /\ UNCHANGED <<calls, out, procs, frame>>

\* except: log the ERROR event for the cycle, re-raise; finally: del db_integration
PwdExcept ==
  /\ run.pc = "failing"
  /\ SetDB(disconnect(log_processing_event(DB, run.cycle_id, "ERROR", "Processing failed")))
  /\ run' = [run EXCEPT !.pc = "raised"]
  /\ last' = [NoCall EXCEPT !.op = "log_event", !.cycle_id = run.cycle_id, !.desc = "ERROR"]
  /\ UNCHANGED <<calls, out, procs, frame>>

\* the INSERT of the ERROR event raises inside the handler: the new exception
\* replaces the one being handled (`raise` is not reached); finally: del db_integration
PwdExceptLogFails ==
  /\ run.pc = "failing"
  /\ SetDB(disconnect(DB))
  /\ run' = [run EXCEPT !.pc = "raised", !.error = "log"]
  /\ last' = [NoCall EXCEPT !.op = "log_event", !.cycle_id = run.cycle_id,
                         !.desc = "ERROR", !.ok = FALSE]
  /\ UNCHANGED <<calls, out, procs, frame>>

\* variant: __main__ catches the failure of the database stage and goes on to
\* output_results, which writes the report of the batch
PwdRaisedThenReport ==
  /\ run.kind = "pwd"
  /\ run.pc = "raised"
  /\ run' = Idle
  /\ out' = [exit |-> 0, report |-> SelectSeq(run.batch, LAMBDA r : r.is_anomaly)]
  /\ last' = NoCall
  /\ UNCHANGED <<cycles, codes, records, log, pending>>
  /\ UNCHANGED <<calls, procs, frame>>

\* the exception reaches __main__: logger.error, sys.exit(1); output_results
\* is not reached, so no report is written
PwdRaised ==
  /\ run.kind = "pwd"
  /\ run.pc = "raised"
  /\ run' = Idle
  /\ out' = [out EXCEPT !.exit = 1]
  /\ last' = NoCall
  /\ UNCHANGED <<cycles, codes, records, log, pending>>
  /\ UNCHANGED <<calls, procs, frame>>

(* generate_and_store_30_cycles (run_clean_demo.py): one loop iteration per file *)
DemoCreate(key, rows) ==
  /\ \/ run.pc = "idle" /\ pending = 0
     \/ run.kind = "demo" /\ run.pc \in {"swallowed", "done"}
  /\ Len(cycles) < MaxCycles
  /\ Len(records) + Len(rows) <= MaxRecords
  /\ SetDB(create_processing_cycle(DB, key).db)
  /\ run' = [Idle EXCEPT !.pc = "demo_created", !.kind = "demo",
                         !.cycle_id = Len(cycles) + 1, !.batch = rows]
  /\ last' = [NoCall EXCEPT !.op = "create_cycle", !.cycle_id = Len(cycles) + 1,
                         !.ret = Len(cycles) + 1]
  /\ UNCHANGED <<calls, out, procs, frame>>

\* load_sample_billing_data raises on an unreadable file, after the cycle was
\* created: the exception is logged to the console only and the loop continues
DemoLoadError ==
  /\ run.pc = "demo_created"
  /\ run' = [run EXCEPT !.pc = "swallowed"]
  /\ last' = NoCall
  /\ UNCHANGED <<cycles, codes, records, log, pending, calls, out, procs, frame>>

\* a store error is handled the same way
DemoStore ==
  /\ run.pc = "demo_created"
  /\ LET r == store_billing_data(DB, run.cycle_id, run.batch)
     IN  /\ SetDB(r.db)
         /\ run' = [run EXCEPT !.pc = IF r.ok THEN "demo_stored" ELSE "swallowed"]
         /\ last' = [NoCall EXCEPT !.op = "store_batch", !.cycle_id = run.cycle_id,
                                   !.rows = run.batch, !.ok = r.ok, !.ret = r.ret]
  /\ UNCHANGED <<calls, out, procs, frame>>

DemoFinalize ==
  /\ run.pc = "demo_stored"
  /\ SetDB(update_processing_cycle_stats(DB, run.cycle_id))
  /\ run' = [run EXCEPT !.pc = "done"]
  /\ last' = [NoCall EXCEPT !.op = "finalize", !.cycle_id = run.cycle_id]
  /\ UNCHANGED <<calls, out, procs, frame>>

\* after the last file: del db_integration
DemoEnd ==
  /\ run.kind = "demo"
  /\ run.pc \in {"swallowed", "done"}
  /\ SetDB(disconnect(DB))
  /\ run' = Idle
  /\ last' = [NoCall EXCEPT !.op = "close"]
  /\ UNCHANGED <<calls, out, procs, frame>>

(* the report: join_code_descriptions and output_results, run by the
   file-only pipeline (anomaly_detection.py __main__) *)

\* the two description workbooks under data/descriptions, by bill type; a code
\* a workbook does not list gets no description from the left merge
DescriptionBook ==
  [SEC |-> [C001 |-> "Setup fee"], ACR |-> [C001 |-> "Goodwill credit"]]

LookupDescription(bill_type, code) ==
  IF code \in DOMAIN DescriptionBook[bill_type]
  THEN DescriptionBook[bill_type][code] ELSE ""

\* pd.read_excel raises FileNotFoundError when a workbook is missing; otherwise
\* every row takes the description its bill type's workbook gives its code
join_code_descriptions(rows, sources) ==
  IF sources = "missing" THEN [ok |-> FALSE, rows |-> <<>>]
  ELSE [ok |-> TRUE,
        rows |-> [i \in 1..Len(rows) |->
                    [rows[i] EXCEPT !.desc = LookupDescription(rows[i].bill_type,
                                                               rows[i].code)]]]

\* the anomalous rows with their descriptions, written to the report workbook;
\* an exception of the join leaves output_results before anything is written
output_results(rows, sources) ==
  LET anomalies == SelectSeq(rows, LAMBDA r : r.is_anomaly)
      joined == join_code_descriptions(anomalies, sources)
  IN  IF joined.ok THEN [ok |-> TRUE, report |-> joined.rows]
      ELSE [ok |-> FALSE, report |-> NoReport]

\* load_sample_billing_data .. flag_anomalies: the annotated frame is in memory
ReportLoad(rows, sources) ==
  /\ run.pc = "idle"
  /\ run' = [Idle EXCEPT !.pc = "flagged", !.kind = "report", !.batch = rows,
                         !.sources = sources]
  /\ last' = NoCall
  /\ UNCHANGED <<cycles, codes, records, log, pending, calls, out, procs, frame>>

\* output_results, then the end of the process: status 0 after the report was
\* written, status 1 when the exception of output_results ends the script
ReportOutput ==
  /\ run.kind = "report"
  /\ run.pc = "flagged"
  /\ LET r == output_results(run.batch, run.sources)
     IN  out' = [exit |-> IF r.ok THEN 0 ELSE 1, report |-> r.report]
  /\ run' = Idle
  /\ last' = NoCall
  /\ UNCHANGED <<cycles, codes, records, log, pending, calls, procs, frame>>

ReportNext ==
  \/ \E rows \in Batches, sources \in {"present", "missing"} : ReportLoad(rows, sources)
  \/ ReportOutput

ReportSpec == Init /\ [][ReportNext]_vars

(* the feature engine and the classifier on their own: the calls of __main__
   between loading a frame and storing it, on every kind of row *)

\* an amount is missing, zero or positive
Amounts == {NaN, 0, 2}

EngineRows ==
  [code : {"C001"}, bill_type : {"SEC"}, desc : {""},
   hist : [1..5 -> Amounts], active : Amounts]

\* a frame of one row, or of one row and a second one that gives the batch a
\* spread of deviations
EngineBatches ==
  {<<r>> : r \in EngineRows} \cup {<<r, q>> : r \in EngineRows, q \in {RowSteady, RowDrop}}

\* the threshold settings flag_anomalies is called with: the defaults, and
\* lower and higher ones; the z thresholds 1/2 and 4/5 lie on either side of
\* 1/sqrt(2), the |z| of both rows of a two-row batch
ThresholdSettings ==
  [z : {DefaultZ, [num |-> 1, den |-> 2], [num |-> 4, den |-> 5]},
   pct : {DefaultPct, [num |-> 3, den |-> 1]}]

\* the derived columns of a frame
Derived(f) ==
  [rows |-> f.rows, avg |-> f.avg, delta |-> f.delta, special |-> f.special,
   anomaly |-> f.anomaly]

\* pass counts the runs of the engine over the frame; first keeps the columns
\* the first run produced
LoadedFrame(b) ==
  [pc |-> "cleaned", rows |-> b, avg |-> <<>>, delta |-> <<>>, special |-> <<>>,
   anomaly |-> <<>>, z |-> DefaultZ, pct |-> DefaultPct, pass |-> 1, first |-> <<>>]

\* a frame after load_sample_billing_data and clean_data; the store is not used
EngineInit ==
  /\ cycles = <<>>
  /\ codes = <<>>
  /\ records = <<>>
  /\ log = <<>>
  /\ pending = 0
  /\ run = Idle
  /\ last = NoCall
  /\ calls = 0
  /\ out = NoOut
  /\ procs = <<>>
  /\ \E b \in EngineBatches : frame = LoadedFrame(b)

EngineRollingAverage ==
  /\ frame.pc = "cleaned"
  /\ frame' = [frame EXCEPT !.pc = "averaged",
                 !.avg = [i \in 1..Len(frame.rows) |->
                            calculate_rolling_average(frame.rows[i].hist)]]
  /\ UNCHANGED <<cycles, codes, records, log, pending, run, last, calls, out, procs>>

\* variant: the magnitude of the deviation, in whole amount units, is written
\* over the Active Month column as well
EngineDeltasInPlace ==
  /\ frame.pc = "averaged"
  /\ LET d == [i \in 1..Len(frame.rows) |->
                ActiveVsAvg(frame.avg[i], frame.rows[i].active)]
     IN  frame' = [frame EXCEPT !.pc = "deltas", !.delta = d,
                     !.rows = [i \in 1..Len(frame.rows) |->
                                 [frame.rows[i] EXCEPT
                                    !.active = IF d[i].defined THEN Abs(d[i].val) \div Scale
                                               ELSE @]]]
  /\ UNCHANGED <<cycles, codes, records, log, pending, run, last, calls, out, procs>>

\* calculate_deltas reads the Active Month and Rolling_Avg columns of the frame
EngineDeltas ==
  /\ frame.pc = "averaged"
  /\ frame' = [frame EXCEPT !.pc = "deltas",
                 !.delta = [i \in 1..Len(frame.rows) |->
                              ActiveVsAvg(frame.avg[i], frame.rows[i].active)]]
  /\ UNCHANGED <<cycles, codes, records, log, pending, run, last, calls, out, procs>>

EngineSpecialCases ==
  /\ frame.pc = "deltas"
  /\ frame' = [frame EXCEPT !.pc = "special",
                 !.special = [i \in 1..Len(frame.rows) |->
                                flag_special_cases(frame.rows[i])]]
  /\ UNCHANGED <<cycles, codes, records, log, pending, run, last, calls, out, procs>>

\* a second run over the frame is called with the thresholds of the first
EngineAnomalies(t) ==
  /\ frame.pc = "special"
  /\ frame.pass = 2 => (t.z = frame.z /\ t.pct = frame.pct)
  /\ frame' = [frame EXCEPT !.pc = "flagged", !.z = t.z, !.pct = t.pct,
                 !.anomaly = [i \in 1..Len(frame.rows) |->
                                flag_anomalies_with(frame.rows, i, t.z, t.pct)]]
  /\ UNCHANGED <<cycles, codes, records, log, pending, run, last, calls, out, procs>>

\* the four functions are applied again to the frame they annotated
EngineRerun ==
  /\ frame.pc = "flagged"
  /\ frame.pass = 1
  /\ frame' = [frame EXCEPT !.pc = "cleaned", !.pass = 2, !.first = Derived(frame)]
  /\ UNCHANGED <<cycles, codes, records, log, pending, run, last, calls, out, procs>>

EngineNext ==
  \/ EngineRollingAverage
  \/ EngineDeltas
  \/ EngineSpecialCases
  \/ \E t \in ThresholdSettings : EngineAnomalies(t)
  \/ EngineRerun

EngineSpec == EngineInit /\ [][EngineNext]_vars

(* two processes, each with its own connection, calling the store at the same
   time.  A SELECT outside a transaction reads the committed tables; a write
   and the commit that follows it in the same method are one step, because
   sqlite lets one connection write at a time and a second writer waits for
   the first one's commit. *)
Processes == {1, 2}

\* the cycle both writers store into
SharedCycle == 1

\* the batches the two writers are handed, and the registry keys two
\* processes upsert
WriterBatches == {Annotate(b) : b \in BatchesOver({RowSteady, RowDrop})}

UpsertKeys == [code : Codes, bill_type : {"SEC"}, desc : Descs]

\* get_or_create_billing_code up to fetchone(): the row the SELECT returns
lookup_billing_code(db, code, bill_type) ==
  LET hit == FindCode(db, code, bill_type)
  IN  IF hit = {} THEN [found |-> 0, existing |-> ""]
      ELSE LET id == CHOOSE i \in hit : TRUE
           IN  [found |-> id, existing |-> db.codes[id].description]

\* get_or_create_billing_code after fetchone(), on the tables as they are
\* now: UPDATE ... WHERE code_id = found when the fetched description differs,
\* INSERT when nothing was fetched (the UNIQUE constraint is checked now)
write_billing_code(db, code, bill_type, desc, found, existing) ==
  IF found # 0
  THEN [db |-> IF desc # "" /\ desc # existing
               THEN Commit([db EXCEPT !.codes[found].description = desc])
               ELSE db,
        ok |-> TRUE, ret |-> found]
  ELSE IF UniqueViolated(db, code, bill_type)
       THEN [db |-> db, ok |-> FALSE, ret |-> 0]
       ELSE [db |-> Commit([db EXCEPT !.codes =
                              Append(db.codes, [billing_code |-> code,
                                                bill_type |-> bill_type,
                                                description |-> desc,
                                                first_seen_date |-> db.today])]),
             ok |-> TRUE, ret |-> Len(db.codes) + 1]

\* update_processing_cycle_stats after get_processing_stats returned stats
write_cycle_stats(db, cycle_id, stats) ==
  Commit(IF cycle_id \in 1..Len(db.cycles)
         THEN [db EXCEPT !.cycles[cycle_id].total_records = stats.total_records,
                         !.cycles[cycle_id].anomaly_count = stats.anomaly_count]
         ELSE db)

\* a process: where it is; the arguments and the fetched row of its upsert;
\* upserted is 0 until the upsert ended, then its position among the ended
\* calls, and wrote tells whether it committed a write; rows is its batch,
\* stored / store_ok / store_ret the outcome of its store_billing_data call,
\* stats the counts its finalize call read
NoProc ==
  [pc |-> "idle", code |-> "", bill_type |-> "", desc |-> "", found |-> 0,
   existing |-> "", upserted |-> 0, ok |-> TRUE, ret |-> 0, wrote |-> FALSE,
   rows |-> <<>>, stored |-> FALSE, store_ok |-> TRUE, store_ret |-> 0,
   stats |-> [total_records |-> 0, anomaly_count |-> NULL], finalized |-> FALSE]

\* the store after setup_database() and one create_processing_cycle call; the
\* two processes are handed the same batch
WritersInit ==
  /\ cycles = create_processing_cycle(
                [cycles |-> <<>>, codes |-> <<>>, records |-> <<>>, log |-> <<>>,
                 pending |-> 0], 1).db.cycles
  /\ codes = <<>>
  /\ records = <<>>
  /\ log = <<>>
  /\ pending = 0
  /\ run = Idle
  /\ last = NoCall
  /\ calls = 0
  /\ out = NoOut
  /\ frame = <<>>
  /\ \E b \in WriterBatches : procs = [p \in Processes |-> [NoProc EXCEPT !.rows = b]]

\* a process that has made no call yet
Fresh(p) == procs[p].pc = "idle" /\ procs[p].upserted = 0 /\ ~procs[p].stored

ProcLookup(p, key) ==
  /\ Fresh(p)
  /\ LET f == lookup_billing_code(DB, key.code, key.bill_type)
     IN  procs' = [procs EXCEPT ![p] =
                     [@ EXCEPT !.pc = "fetched", !.code = key.code,
                               !.bill_type = key.bill_type, !.desc = key.desc,
                               !.found = f.found, !.existing = f.existing]]
  /\ UNCHANGED <<cycles, codes, records, log, pending, calls>>
  /\ UNCHANGED <<run, last, out, frame>>

ProcWrite(p) ==
  /\ procs[p].pc = "fetched"
  /\ LET me == procs[p]
         w == write_billing_code(DB, me.code, me.bill_type, me.desc, me.found,
                                 me.existing)
     IN  /\ SetDB(w.db)
         /\ procs' = [procs EXCEPT ![p] =
                        [@ EXCEPT !.pc = "done", !.upserted = calls + 1,
                                  !.ok = w.ok, !.ret = w.ret,
                                  !.wrote = (w.db # DB)]]
  /\ calls' = calls + 1
  /\ UNCHANGED <<run, last, out, frame>>

\* variant: the second writer of a cycle finds it already stored and skips
ProcStoreOnce(p) ==
  /\ Fresh(p)
  /\ LET r == IF RecordsOf(records, SharedCycle) # {}
              THEN [db |-> DB, ok |-> TRUE, ret |-> 0]
              ELSE store_billing_data(DB, SharedCycle, procs[p].rows)
     IN  /\ SetDB(IF r.ok THEN r.db ELSE disconnect(r.db))
         /\ procs' = [procs EXCEPT ![p] =
                        [@ EXCEPT !.pc = IF r.ok THEN "stored" ELSE "done",
                                  !.stored = TRUE, !.store_ok = r.ok,
                                  !.store_ret = r.ret]]
  /\ calls' = calls + 1
  /\ UNCHANGED <<run, last, out, frame>>

\* store_billing_data(SharedCycle, rows); a call that raises ends the process,
\* whose connection is closed
ProcStore(p) ==
  /\ Fresh(p)
  /\ LET r == store_billing_data(DB, SharedCycle, procs[p].rows)
     IN  /\ SetDB(IF r.ok THEN r.db ELSE disconnect(r.db))
         /\ procs' = [procs EXCEPT ![p] =
                        [@ EXCEPT !.pc = IF r.ok THEN "stored" ELSE "done",
                                  !.stored = TRUE, !.store_ok = r.ok,
                                  !.store_ret = r.ret]]
  /\ calls' = calls + 1
  /\ UNCHANGED <<run, last, out, frame>>

\* update_processing_cycle_stats: the SELECT of get_processing_stats ...
ProcStatsRead(p) ==
  /\ procs[p].pc = "stored"
  /\ procs' = [procs EXCEPT ![p] =
                 [@ EXCEPT !.pc = "counted",
                           !.stats = get_processing_stats(DB, SharedCycle)]]
  /\ UNCHANGED <<cycles, codes, records, log, pending, calls>>
  /\ UNCHANGED <<run, last, out, frame>>

\* ... and the UPDATE with the counts that were read, then commit
ProcStatsWrite(p) ==
  /\ procs[p].pc = "counted"
  /\ SetDB(write_cycle_stats(DB, SharedCycle, procs[p].stats))
  /\ procs' = [procs EXCEPT ![p] = [@ EXCEPT !.pc = "done", !.finalized = TRUE]]
  /\ calls' = calls + 1
  /\ UNCHANGED <<run, last, out, frame>>

WritersNext ==
  \/ \E p \in Processes, key \in UpsertKeys : ProcLookup(p, key)
  \/ \E p \in Processes : ProcWrite(p)
  \/ \E p \in Processes : ProcStore(p)
  \/ \E p \in Processes : ProcStatsRead(p)
  \/ \E p \in Processes : ProcStatsWrite(p)

WritersSpec == WritersInit /\ [][WritersNext]_vars

\* the Cycle Store driven call by call
Next ==
  \/ \E key \in CycleKeys : CreateCycle(key)
  \/ \E code \in Codes, bill_type \in BillTypes, desc \in Descs : Upsert(code, bill_type, desc)
  \/ \E cycle_id \in 1..MaxCycles, rows \in DirectBatches : StoreBatch(cycle_id, rows)
  \/ \E cycle_id \in 1..MaxCycles : Finalize(cycle_id)
  \/ \E cycle_id \in 1..MaxCycles, level \in LevelSet : LogEvent(cycle_id, level)
  \/ QueryCycles
  \/ \E code \in Codes : QueryHistory(code)
  \/ Close

Spec == Init /\ [][Next]_vars

\* the pipelines: runs of process_with_database and of the demo loop, one at a time
PipelineNext ==
  \/ PwdParseError
  \/ \E key \in CycleKeys, rows \in Batches, missing \in {""} \cup RequiredColumns :
       PwdCreate(key, rows, missing)
  \/ PwdLogStart
  \/ PwdLogStartFails
  \/ PwdStore
  \/ PwdStoreAnomalyDetails
  \/ PwdExcept
  \/ PwdExceptLogFails
  \/ PwdRaised
  \/ \E key \in CycleKeys, rows \in Batches : DemoCreate(key, rows)
  \/ DemoLoadError
  \/ DemoStore
  \/ DemoFinalize
  \/ DemoEnd

PipelineSpec == Init /\ [][PipelineNext]_vars

(* ------------------------------ claims --------------------------------- *)
\* the registry entries of a (billing code, bill type) key in a registry cs
EntriesOf(cs, code, bill_type) ==
  {i \in 1..Len(cs) : cs[i].billing_code = code /\ cs[i].bill_type = bill_type}

\* C1: when an upsert of a key with a non-empty description has returned and
\* the next call upserts the same key with a different non-empty description,
\* the second call returns the same code_id, the registry holds exactly one
\* entry for the key, and that entry's description is the second call's.
C1_LastWriteWins ==
  [][(/\ last.op = "upsert" /\ last.ok
      /\ last'.op = "upsert"
      /\ last'.code = last.code /\ last'.bill_type = last.bill_type
      /\ last.desc # "" /\ last'.desc # "" /\ last'.desc # last.desc)
     => (/\ last'.ok
         /\ last'.ret = last.ret
         /\ EntriesOf(codes', last'.code, last'.bill_type) = {last'.ret}
         /\ codes'[last'.ret].description = last'.desc)]_vars

\* C1 witness: an upsert has just replaced a different non-empty description
C1_Witness ==
  /\ last.op = "upsert" /\ last.ok
  /\ last.found # 0 /\ last.found = last.ret
  /\ last.existing # "" /\ last.desc # "" /\ last.desc # last.existing
  /\ codes[last.ret].description = last.desc

\* C2: an upsert of a billing code that is already registered under another
\* bill type returns, and the registry then holds an entry of its own for the
\* new (billing code, bill type) pair, with a code_id different from the other's.
C2_OneEntryPerPair ==
  (/\ last.op = "upsert"
   /\ \E i \in 1..Len(codes) :
        codes[i].billing_code = last.code /\ codes[i].bill_type # last.bill_type)
  => (/\ last.ok
      /\ EntriesOf(codes, last.code, last.bill_type) = {last.ret})

\* the records stored under a cycle, in insertion order
CycleRecords(recs, cycle_id) == SelectSeq(recs, LAMBDA r : r.cycle_id = cycle_id)

AnomalousRows(rows) == {i \in 1..Len(rows) : rows[i].is_anomaly}

\* C3: store_batch called on a cycle right after its creation returns the
\* number N of rows of the batch and leaves exactly N records under the cycle;
\* a finalize_cycle_stats that follows writes total_records = N and
\* anomaly_count = the number of those rows flagged is_anomaly.
C3_StoreCountsN ==
  /\ [][(/\ last.op = "create_cycle"
         /\ last'.op = "store_batch" /\ last'.cycle_id = last.ret)
        => (/\ last'.ok
            /\ last'.ret = Len(last'.rows)
            /\ Len(CycleRecords(records', last'.cycle_id)) = Len(last'.rows))]_vars
  /\ [][(/\ last.op = "store_batch" /\ last.ok
         /\ Len(CycleRecords(records, last.cycle_id)) = Len(last.rows)
         /\ last.cycle_id \in 1..Len(cycles)
         /\ last'.op = "finalize" /\ last'.cycle_id = last.cycle_id)
        => (/\ cycles'[last.cycle_id].total_records = Len(last.rows)
            /\ cycles'[last.cycle_id].anomaly_count
                 = Cardinality(AnomalousRows(last.rows)))]_vars

\* C4: when store_batch has returned and the next call is store_batch with the
\* same cycle_id and the same rows, the second call returns N as well, the
\* cycle's records are the old ones followed by a second copy of the N records
\* the first call stored (2N records when the cycle held N), and the registry
\* has as many entries as before; finalize_cycle_stats then writes the number
\* of records stored under the cycle (2N) as total_records.
C4_StoreBatchDuplicates ==
  /\ [][(/\ last.op = "store_batch" /\ last.ok
         /\ last'.op = "store_batch"
         /\ last'.cycle_id = last.cycle_id /\ last'.rows = last.rows)
        => LET old == CycleRecords(records, last.cycle_id)
               n == Len(last.rows)
           IN  /\ last'.ok
               /\ last'.ret = n
               /\ CycleRecords(records', last.cycle_id)
                    = old \o SubSeq(old, Len(old) - n + 1, Len(old))
               /\ Len(codes') = Len(codes)]_vars
  /\ [][(/\ last'.op = "finalize" /\ calls' # calls
         /\ last'.cycle_id \in 1..Len(cycles))
        => cycles'[last'.cycle_id].total_records
             = Len(CycleRecords(records, last'.cycle_id))]_vars

\* C4 witness: the second of two equal store_batch calls has returned and
\* the cycle holds the rows of the batch twice
C4_Witness ==
  /\ last.op = "store_batch" /\ last.ok
  /\ LET recs == CycleRecords(records, last.cycle_id)
         n == Len(last.rows)
     IN  /\ Len(recs) = 2 * n
         /\ SubSeq(recs, 1, n) = SubSeq(recs, n + 1, 2 * n)
  /\ Len(codes) >= 1

\* C5: every create_cycle call returns, with an identifier that no stored
\* cycle carries yet; the new cycle is stored under it and every cycle stored
\* before is kept, also when the new cycle has the (cycle_number, year, month)
\* of an existing one.
C5_FreshCycleId ==
  [][(last'.op = "create_cycle" /\ calls' # calls)
     => (/\ last'.ok
         /\ last'.ret \notin 1..Len(cycles)
         /\ last'.ret \in 1..Len(cycles')
         /\ Len(cycles') = Len(cycles) + 1
         /\ \A i \in 1..Len(cycles) : cycles'[i] = cycles[i])]_vars

\* C5 witness: two stored cycles with the same (cycle_number, year, month)
C5_Witness ==
  /\ last.op = "create_cycle" /\ last.ok /\ last.ret = 2
  /\ Len(cycles) = 2
  /\ cycles[1].key = cycles[2].key

\* C6: a store_batch on an existing cycle whose batch contains a row with a
\* missing current amount and some historical amount present returns, and the
\* cycle then holds that row as a record with drop_to_zero and is_anomaly true.
C6_MissingActiveStored ==
  (/\ last.op = "store_batch"
   /\ last.cycle_id \in 1..Len(cycles)
   /\ \E i \in 1..Len(last.rows) :
        /\ isna(last.rows[i].active)
        /\ \E k \in 1..5 : ~isna(last.rows[i].hist[k]))
  => (/\ last.ok
      /\ \E j \in RecordsOf(records, last.cycle_id) :
           /\ isna(records[j].active)
           /\ records[j].drop_to_zero
           /\ records[j].is_anomaly)

\* C7: no step removes a cycle or an event: the cycle table and the event log
\* only grow, every cycle keeps its identity, and every event keeps its cycle
\* reference, level and message.
C7_AppendOnly ==
  [][/\ Len(cycles') >= Len(cycles)
     /\ \A i \in 1..Len(cycles) : cycles'[i].key = cycles[i].key
     /\ Len(log') >= Len(log)
     /\ \A i \in 1..Len(log) : log'[i] = log[i]]_vars

\* C7 witness: a cycle and an event are stored and a later call has rolled
\* back the open transaction
C7_Witness ==
  /\ Len(cycles) >= 1
  /\ Len(log) >= 1
  /\ last.op = "close"

\* a cycle whose counts finalize_cycle_stats has written
Finalized(c) == cycles[c].total_records # NULL

SameCycle(c) ==
  /\ CycleRecords(records', c) = CycleRecords(records, c)
  /\ cycles'[c].total_records = cycles[c].total_records
  /\ cycles'[c].anomaly_count = cycles[c].anomaly_count

\* the cycles that rows of the open transaction were inserted under
PendingCycles ==
  {records[i].cycle_id : i \in (Len(records) - pending + 1)..Len(records)}

\* C8 (as claimed): once a cycle's counts are written, no step changes the
\* records stored under the cycle or its counts.
C8_NoChangeAfterFinalize ==
  [][\A c \in 1..Len(cycles) : Finalized(c) => SameCycle(c)]_vars

\* C8 (amended): once a cycle's counts are written, no store operation other
\* than a store_batch or finalize_cycle_stats call on that same cycle_id, and
\* the rollback of such a store_batch that raised, changes the records stored
\* under the cycle or its counts.
C8_OnlySameCycleCallsChange ==
  [][\A c \in 1..Len(cycles) :
       (/\ Finalized(c)
        /\ ~(last'.op \in {"store_batch", "finalize"} /\ last'.cycle_id = c)
        /\ ~(last'.op = "close" /\ c \in PendingCycles))
       => SameCycle(c)]_vars

\* C8 witness: a batch has been stored under cycle 2 while cycle 1 is finalized
C8_Witness ==
  /\ Len(cycles) = 2
  /\ Finalized(1)
  /\ last.op = "store_batch" /\ last.ok /\ last.cycle_id = 2
  /\ CycleRecords(records, 2) # <<>>

\* C9: a cycle that has just been created, and a cycle whose run is failing
\* or has failed, does not carry the status completed.
C9_CompletedOnlyIfFinalized ==
  (/\ run.cycle_id # 0
   /\ run.pc \in {"created", "demo_created", "failing", "raised", "swallowed"})
  => cycles[run.cycle_id].status # "completed"

\* C10: when a run has failed after creating its cycle, the event log holds an
\* ERROR event for that cycle and the failure has been raised to the caller.
C10_FailedRunLogsError ==
  (/\ run.cycle_id # 0
   /\ run.pc \in {"raised", "swallowed"})
  => (/\ run.pc = "raised"
      /\ \E i \in 1..Len(log) :
           log[i].cycle_id = run.cycle_id /\ log[i].level = "ERROR")

\* C11: when a run of process_with_database ends in an input error (a required
\* column missing from the batch, or an unparseable cycle identifier), the run
\* has persisted nothing: the four tables hold as many rows as when it began.
C11_InputErrorPersistsNothing ==
  (run.kind = "pwd" /\ run.pc = "raised" /\ run.error = "input")
    => Sizes(DB) = run.start

\* C12: a failure to write an event never becomes the outcome of the run: a
\* run of process_with_database that is failing, or has raised, is never
\* propagating the exception of a log write.
C12_LogFailureNotPropagated ==
  (run.kind = "pwd" /\ run.pc \in {"failing", "raised"}) => run.error # "log"

\* C13: in the database-backed pipeline a report is written only by a step
\* taken after process_with_database returned, and the step that ends a run
\* whose database stage raised sets exit status 1 and writes no report.
C13_ReportOnlyAfterDatabaseStage ==
  [][/\ (run.kind = "pwd" /\ out'.report # out.report) => run.pc = "returned"
     /\ (run.kind = "pwd" /\ run.pc = "raised" /\ run'.pc = "idle")
          => (out'.exit = 1 /\ out'.report = out.report)]_vars

\* a run whose database stage failed after creating its cycle has ended with
\* exit status 1 and no report
C13_Witness ==
  /\ run = Idle
  /\ out.exit = 1
  /\ out.report = NoReport
  /\ Len(cycles) >= 1
  /\ \E i \in 1..Len(log) : log[i].level = "ERROR"

\* the blank-description form of a frame's anomalous rows
BlankReport(rows) ==
  LET anomalies == SelectSeq(rows, LAMBDA r : r.is_anomaly)
  IN  [i \in 1..Len(anomalies) |-> [anomalies[i] EXCEPT !.desc = ""]]

\* C14: when the description source is missing, the report is still written,
\* its rows carrying a blank description, and the run ends successfully.
C14_LookupFailureKeepsReport ==
  [][(run.kind = "report" /\ run.pc = "flagged" /\ run.sources = "missing"
      /\ run'.pc = "idle")
     => (out'.exit = 0 /\ out'.report = BlankReport(run.batch))]_vars

\* a sequence of ids lists every member of S exactly once
ListsExactly(s, S) ==
  /\ {s[i] : i \in 1..Len(s)} = S
  /\ Len(s) = Cardinality(S)

\* C15: query_cycles returns every stored cycle exactly once, most recent
\* first; query_history(code) returns exactly the stored records of the code,
\* those of a more recent cycle first; neither changes the store.
C15_QueriesCompleteOrderedReadOnly ==
  [][/\ last'.op = "query_cycles" =>
          /\ ListsExactly(last'.result, 1..Len(cycles))
          /\ \A i, j \in 1..Len(last'.result) :
               i < j => last'.result[i] >= last'.result[j]
          /\ UNCHANGED <<cycles, codes, records, log, pending>>
     /\ last'.op = "query_history" =>
          /\ ListsExactly(last'.result,
                          {i \in 1..Len(records) : records[i].billing_code = last'.code})
          /\ \A i, j \in 1..Len(last'.result) :
               i < j => records[last'.result[i]].cycle_id
                          >= records[last'.result[j]].cycle_id
          /\ UNCHANGED <<cycles, codes, records, log, pending>>]_vars

\* both processes have ended an upsert of the same (code, bill_type) key
BothUpserted ==
  /\ \A p \in Processes : procs[p].upserted # 0
  /\ procs[1].code = procs[2].code
  /\ procs[1].bill_type = procs[2].bill_type

\* the process whose upsert committed a write last
LastCommitter ==
  CHOOSE p \in Processes :
    /\ procs[p].wrote
    /\ \A q \in Processes : procs[q].wrote => procs[q].upserted <= procs[p].upserted

\* C16: when two processes have upserted the same key, under every
\* interleaving of their lookups and writes both calls returned the same
\* code_id, the registry holds one entry for the key, and its description is
\* that of the upsert that committed last.
C16_ConcurrentUpsertsSerialized ==
  BothUpserted =>
    /\ procs[1].ok /\ procs[2].ok
    /\ procs[1].ret = procs[2].ret
    /\ Cardinality(EntriesOf(codes, procs[1].code, procs[1].bill_type)) = 1
    /\ codes[procs[1].ret].description = procs[LastCommitter].desc

\* both writers have stored their batch and written the cycle's counts
BothFinished == \A p \in Processes : procs[p].store_ok /\ procs[p].finalized

\* C17: once two writers of the same cycle have both stored the batch and
\* finalized, the cycle holds each row of the batch twice (whatever the
\* interleaving); C17_Witness is the interleaving after which, in addition,
\* the written total_records differs from the number of records stored.
C17_TwoWritersDoubleCount ==
  BothFinished =>
    /\ Len(CycleRecords(records, SharedCycle)) = 2 * Len(procs[1].rows)
    /\ \A i \in 1..Len(procs[1].rows) :
         Cardinality({j \in RecordsOf(records, SharedCycle) :
                        /\ records[j].hist = procs[1].rows[i].hist
                        /\ records[j].active = procs[1].rows[i].active
                        /\ records[j].billing_code = procs[1].rows[i].code})
           >= 2

C17_Witness ==
  /\ BothFinished
  /\ cycles[SharedCycle].total_records
       # Cardinality(RecordsOf(records, SharedCycle))

\* C18: a row never has new_code and drop_to_zero both true, whatever its
\* historical and current amounts (present, missing or zero).
C18_FlagsExclusive ==
  frame.pc \in {"special", "flagged"} =>
    \A i \in 1..Len(frame.special) :
      ~(frame.special[i].new_code /\ frame.special[i].drop_to_zero)

\* a row with part of its history missing and a zero current amount (a drop
\* to zero, not a new code), in a frame whose second row dropped to zero too
C18_Witness ==
  /\ frame.pc = "special"
  /\ Len(frame.rows) = 2
  /\ isna(frame.rows[1].hist[1])
  /\ ~isna(frame.rows[1].hist[5])
  /\ frame.rows[1].active = 0
  /\ frame.special[1].drop_to_zero
  /\ ~frame.special[1].new_code
  /\ frame.special[2].drop_to_zero

\* C19: for every row of every batch and every threshold setting, is_anomaly
\* is true when drop_to_zero or new_code is, also when the row's deviation
\* (and with it z_score and pct_change_vs_avg) is undefined.
C19_StructuralFlagsAreAnomalies ==
  frame.pc = "flagged" =>
    \A i \in 1..Len(frame.rows) :
      (frame.special[i].drop_to_zero \/ frame.special[i].new_code)
        => frame.anomaly[i]

\* a new code, its deviation undefined, flagged under the highest thresholds
C19_Witness ==
  /\ frame.pc = "flagged"
  /\ frame.z = DefaultZ
  /\ frame.pct = [num |-> 3, den |-> 1]
  /\ frame.special[1].new_code
  /\ ~frame.delta[1].defined
  /\ frame.anomaly[1]

\* C20: a row with at least one missing historical amount has an undefined
\* rolling_avg, and so an undefined active_vs_avg (and pct_change_vs_avg).
C20_MissingSlotPropagates ==
  frame.pc \in {"deltas", "special", "flagged"} =>
    \A i \in 1..Len(frame.rows) :
      (\E k \in 1..5 : isna(frame.rows[i].hist[k]))
        => (isna(frame.avg[i]) /\ ~frame.delta[i].defined)

\* a row whose five historical amounts are all present and zero and whose
\* current amount is present and not zero
ZeroAverageRow(row) ==
  /\ \A k \in 1..5 : row.hist[k] = 0
  /\ ~isna(row.active)
  /\ row.active # 0

\* C21: a row whose rolling average is zero (all five historical amounts present
\* and zero) and whose current amount is not zero does not satisfy the
\* percentage rule, and is flagged anomalous only if the z-score rule fires
C21_ZeroAverageNotPctFlagged ==
  frame.pc = "flagged" =>
    \A i \in 1..Len(frame.rows) :
      ZeroAverageRow(frame.rows[i]) =>
        /\ ~PctRuleWith(frame.rows[i].hist, frame.rows[i].active, frame.pct)
        /\ frame.anomaly[i] => ZRuleWith(frame.rows, i, frame.z)

\* the rows of the frame whose Active_vs_Avg the deltas step left defined
DefinedDeviations == {j \in 1..Len(frame.rows) : frame.delta[j].defined}

\* the standard deviation of Active_vs_Avg over the batch is zero: all defined
\* deviations are equal
ZeroSpread == \A j, k \in DefinedDeviations : frame.delta[j].val = frame.delta[k].val

\* C22: the z-score is relative to the batch and uses the sample standard
\* deviation: with at most one row, or with zero standard deviation, no row is
\* flagged by the z-score rule (a flagged row then satisfies the percentage rule
\* or carries a structural flag); in a two-row batch with distinct deviations
\* both rows have |z| = 1/sqrt(2) and the rule fires exactly for thresholds below it
C22_ZScoreBatchRelative ==
  frame.pc = "flagged" =>
    /\ (Len(frame.rows) <= 1 \/ ZeroSpread) =>
         \A i \in 1..Len(frame.rows) :
           /\ ~ZRuleWith(frame.rows, i, frame.z)
           /\ frame.anomaly[i] =>
                \/ PctRuleWith(frame.rows[i].hist, frame.rows[i].active, frame.pct)
                \/ frame.special[i].drop_to_zero
                \/ frame.special[i].new_code
    /\ (Cardinality(DefinedDeviations) = 2 /\ ~ZeroSpread) =>
         \A i \in DefinedDeviations :
           /\ ZRuleWith(frame.rows, i, frame.z)
                <=> 2 * frame.z.num * frame.z.num < frame.z.den * frame.z.den
           /\ ZRuleWith(frame.rows, i, frame.z) => frame.anomaly[i]

\* a two-row batch whose two deviations are defined and equal, classified with the
\* lowest z threshold: the standard deviation is zero and no row is flagged
C22_Witness ==
  /\ frame.pc = "flagged"
  /\ Len(frame.rows) = 2
  /\ Cardinality(DefinedDeviations) = 2
  /\ ZeroSpread
  /\ frame.z = [num |-> 1, den |-> 2]
  /\ \A i \in 1..2 : ~frame.anomaly[i]

\* C23: running the rolling average, deltas, special cases and anomaly flags again
\* on the frame they already annotated gives every row the derived values and
\* flags of the first run, which are those of the raw columns alone
C23_EngineIdempotent ==
  (frame.pc = "flagged" /\ frame.pass = 2) =>
    /\ Derived(frame) = frame.first
    /\ \A i \in 1..Len(frame.rows) :
         /\ frame.avg[i] = calculate_rolling_average(frame.first.rows[i].hist)
         /\ frame.special[i] = flag_special_cases(frame.first.rows[i])
         /\ frame.anomaly[i] = flag_anomalies_with(frame.first.rows, i, frame.z, frame.pct)

\* a second run has finished on a two-row frame with a row flagged by a numeric
\* rule only and a row not flagged
C23_Witness ==
  /\ frame.pc = "flagged"
  /\ frame.pass = 2
  /\ Len(frame.rows) = 2
  /\ \E i, j \in 1..2 :
       /\ frame.anomaly[i]
       /\ ~frame.special[i].drop_to_zero
       /\ ~frame.special[i].new_code
       /\ ~frame.anomaly[j]

(* store_billing_data called with frames of a caller's own making *)

\* a frame that was loaded and cleaned but not passed through the engine: it has
\* no derived columns, and row.get(..., False) reads each flag as False
Unannotated(b) ==
  [i \in 1..Len(b) |->
     [code |-> b[i].code, bill_type |-> b[i].bill_type, desc |-> b[i].desc,
      hist |-> b[i].hist, active |-> b[i].active,
      drop_to_zero |-> FALSE, new_code |-> FALSE, is_anomaly |-> FALSE]]

\* one-row frames, with or without the derived columns
CallerBatches ==
  {Annotate(<<r>>) : r \in RawRows} \cup {Unannotated(<<r>>) : r \in RawRows}

CallerNext ==
  \/ \E key \in CycleKeys : CreateCycle(key)
  \/ \E cycle_id \in 1..MaxCycles, rows \in CallerBatches : StoreBatch(cycle_id, rows)
  \/ \E cycle_id \in 1..MaxCycles : Finalize(cycle_id)

CallerSpec == Init /\ [][CallerNext]_vars

\* C24: every stored record's derived attributes agree with its own stored
\* amounts: drop_to_zero and new_code are the special-case flags of the stored
\* history and current amount, and is_anomaly is set whenever one of them or the
\* percentage rule holds for these amounts, whatever the caller's rows carried
C24_DerivedInSyncWithInputs ==
  \A i \in 1..Len(records) :
    LET r == records[i]
    IN  /\ r.drop_to_zero = Drop_to_0(r.hist, r.active)
        /\ r.new_code = New_Code(r.hist, r.active)
        /\ (Drop_to_0(r.hist, r.active) \/ New_Code(r.hist, r.active)
              \/ PctRule(r.hist, r.active)) => r.is_anomaly

\* C25: every stored billing record's cycle_id identifies an existing cycle, and
\* its code_id identifies an existing registry entry whose billing code and bill
\* type are the record's own
C25_RecordsReferenceExistingRows ==
  \A i \in 1..Len(records) :
    /\ records[i].cycle_id \in 1..Len(cycles)
    /\ records[i].code_id \in 1..Len(codes)
    /\ codes[records[i].code_id].billing_code = records[i].billing_code
    /\ codes[records[i].code_id].bill_type = records[i].bill_type

(* a run of process_with_database is one sequential call: once begun, the
   interpreter executes its next statement *)
PwdStep ==
  \/ PwdLogStart
  \/ PwdStore
  \/ PwdStoreAnomalyDetails
  \/ PwdExcept
  \/ PwdRaised

\* runs of process_with_database alone, one after the other
PwdNext ==
  \/ PwdParseError
  \/ \E key \in CycleKeys, rows \in Batches, missing \in {""} \cup RequiredColumns :
       PwdCreate(key, rows, missing)
  \/ PwdLogStart
  \/ PwdLogStartFails
  \/ PwdStore
  \/ PwdStoreAnomalyDetails
  \/ PwdExcept
  \/ PwdExceptLogFails
  \/ PwdRaised

PwdFairSpec == Init /\ [][PwdNext]_vars /\ WF_vars(PwdStep)

\* the event log holds the completion event of cycle c
CompletionLogged(c) ==
  \E i \in 1..Len(log) :
    /\ log[i].cycle_id = c
    /\ log[i].level = "INFO"
    /\ log[i].message = "Processing completed successfully"

\* C26: a run of process_with_database whose batch was stored without error
\* eventually reaches finalization, unless a write to the store fails later in
\* the run: the cycle's counts are written and the completion event is logged
\* for the cycle
C26_RunReachesFinalization ==
  \A c \in 1..MaxCycles :
    (run.kind = "pwd" /\ run.pc = "stored" /\ run.cycle_id = c)
      ~> \/ c <= Len(cycles) /\ Finalized(c) /\ CompletionLogged(c)
         \/ run.cycle_id = c /\ run.error = "log"

\* the run of process_with_database in progress failed inside store_billing_data
StoreFailed == run.kind = "pwd" /\ run.error = "store"

\* C27: when store_billing_data fails at some row inside a pipeline run, logging
\* the run's ERROR event keeps every record already inserted for the earlier
\* rows, committed or not, and every registry entry, and leaves no transaction
\* open; the end of the run removes none of them
C27_NoPartialRollback ==
  [][/\ (StoreFailed /\ run.pc = "failing" /\ Len(log') = Len(log) + 1) =>
          /\ records' = records
          /\ codes' = codes
          /\ pending' = 0
          /\ log'[Len(log')].cycle_id = run.cycle_id
          /\ log'[Len(log')].level = "ERROR"
     /\ (StoreFailed /\ run.pc = "raised") =>
          /\ records' = records
          /\ codes' = codes
          /\ pending' = pending]_vars

\* a run whose store failed at the second row has logged its ERROR event: the
\* first row's record is stored under the run's cycle, with its registry entry,
\* and no transaction is open
C27_Witness ==
  /\ StoreFailed
  /\ run.pc = "raised"
  /\ Len(run.batch) = 2
  /\ pending = 0
  /\ \E i \in 1..Len(log) : log[i].cycle_id = run.cycle_id /\ log[i].level = "ERROR"
  /\ \E i \in 1..Len(records) :
       /\ records[i].cycle_id = run.cycle_id
       /\ records[i].billing_code = run.batch[1].code
       /\ records[i].code_id \in 1..Len(codes)
       /\ codes[records[i].code_id].billing_code = run.batch[1].code

C29_FinalizeEmptyCycleWritesZeros ==
  (/\ last.op = "finalize"
   /\ last.cycle_id \in 1..Len(cycles)
   /\ RecordsOf(records, last.cycle_id) = {})
  => (/\ cycles[last.cycle_id].total_records = 0
      /\ cycles[last.cycle_id].anomaly_count = 0)

\* the event log holds the start event of cycle c
StartLogged(c) ==
  \E i \in 1..Len(log) :
    /\ log[i].cycle_id = c
    /\ log[i].level = "INFO"
    /\ log[i].message = "Processing started"

====
